---- MODULE Spec2Model ----
(***************************************************************************)
(* Anchor labelling for a region-proposal network: iou and                 *)
(* DataProvider.get_image_rpns of labeling.py.                             *)
(*                                                                         *)
(* Numbers.  Pixel coordinates are integers.  A float that the code        *)
(* computes is the record [n, d, e] standing for n / (d + e * 1e-6): iou   *)
(* returns area_i / (area_u + 1e-6), that is [n |-> area_i, d |-> area_u,  *)
(* e |-> 1], and a configured threshold p/q is [n |-> p, d |-> q, e |-> 0].*)
(* Two such floats are compared exactly (FloatLess).  The arrays           *)
(* best_iou_for_bbox and best_targets_for_bbox are single precision: a     *)
(* value stored there is the double rounded to 24 bits, which lies below   *)
(* or above the double it came from.  Which of the two depends on the     *)
(* value, and whether lines 263 and 291 compare in double or in single     *)
(* precision depends on the NumPy release, so the direction is left open   *)
(* (the field "below" of a stored IoU).  Rounding only decides a           *)
(* comparison between a double and a stored value that agree up to the     *)
(* 1e-6 term.                                                              *)
(*                                                                         *)
(* The file as given does not run (line 282 has "=" for "-", lines 219-225 *)
(* 231, 295 and 334 misspell names introduced a few lines earlier).  The   *)
(* model reads each misspelt name as the name it misspells.                *)
(***************************************************************************)
EXTENDS Integers, Sequences, FiniteSets, TLC

VARIABLES
    C,                      \* the Settings object: sizes, stride, anchor catalog, thresholds
    fmap,                   \* <<fmap_output_width, fmap_output_height>>
    orig,                   \* <<width, height>> of the original image
    image_info,             \* sequence of bbox_info rows <<label, x, y, h, w>>
    gt_box_coordinates,     \* per box <<x_min, y_min, y_max, x_max>> in resized pixels
    y_is_valid,             \* the cells <<jy, ix, composite_anchor_index>> holding 1
    y_is_obj,               \* the cells holding 1
    y_rpn_reg,              \* cell -> slice 4*k .. 4*k+3, for the slices that are not 0
    best_anchor_for_bbox,   \* per box <<jy, ix, scale index, ratio index>>, or all -1
    best_iou_for_bbox,      \* per box: the single-precision best IoU
    best_coordinates_for_bbox,
    best_targets_for_bbox,  \* per box: the single-precision regression target
    n_anchors_per_bbox,     \* per box: count of anchors labelled positive for it
    best_reg_target,        \* local of the scan, kept from one anchor to the next
    pc,                     \* "call" | "scan" | "repair" | "done" | "iou"
    anchor_area_index, anchor_ratio_index, ix, jy,
    bbox_type_at,           \* history: cell -> "POS" | "NONE" where the scan wrote that
    force_assigned,         \* history: the cells the repair pass has written
    orphan_report,          \* what the call reports about boxes left without a match
    iou_args,               \* the pure-function specification: the two boxes
    iou_result              \* ... and what iou returned for them, in both orders

vars == <<C, fmap, orig, image_info, gt_box_coordinates, y_is_valid, y_is_obj,
          y_rpn_reg, best_anchor_for_bbox, best_iou_for_bbox,
          best_coordinates_for_bbox, best_targets_for_bbox, n_anchors_per_bbox,
          best_reg_target, pc, anchor_area_index, anchor_ratio_index, ix, jy,
          bbox_type_at, force_assigned, orphan_report, iou_args, iou_result>>

----------------------------------------------------------------------------
(* Floats *)

Max(p, q) == IF p >= q THEN p ELSE q

Min(p, q) == IF p <= q THEN p ELSE q

Abs(p) == IF p < 0 THEN 0 - p ELSE p

RECURSIVE GCD(_, _)
GCD(p, q) == IF q = 0 THEN p ELSE GCD(q, p % q)

\* the quotient p / q in lowest terms, q > 0
Frac(p, q) == LET g == GCD(Abs(p), q) IN <<p \div g, q \div g>>

Zero == [n |-> 0, d |-> 1, e |-> 0]

One == [n |-> 1, d |-> 1, e |-> 0]

\* n / (d + e*1e-6) with the denominator made positive
FloatNorm(v) ==
    IF v.d < 0 \/ (v.d = 0 /\ v.e < 0)
    THEN [n |-> 0 - v.n, d |-> 0 - v.d, e |-> 0 - v.e]
    ELSE v

\* u < v, exactly: u.n*(v.d + v.e*eps) < v.n*(u.d + u.e*eps) with 0 < eps
\* smaller than the reciprocal of every integer of the model
FloatLess(u, v) ==
    LET a == FloatNorm(u)
        b == FloatNorm(v)
        X == a.n * b.d - b.n * a.d
        Y == a.n * b.e - b.n * a.e
    IN  X < 0 \/ (X = 0 /\ Y < 0)

FloatEq(u, v) == ~FloatLess(u, v) /\ ~FloatLess(v, u)

\* u and v agree up to the 1e-6 term of the denominator
FloatNear(u, v) ==
    LET a == FloatNorm(u)
        b == FloatNorm(v)
    IN  a.n * b.d = b.n * a.d

----------------------------------------------------------------------------
(* iou, labeling.py lines 38-63 *)

\* union that forgets to take the intersection off
union_of_areas(au, bu, area_intersection) ==
    LET area_a == (au[3] - au[1]) * (au[4] - au[2])
        area_b == (bu[3] - bu[1]) * (bu[4] - bu[2])
    IN  area_a + area_b

\* lines 40-44
union(au, bu, area_intersection) ==
    LET area_a == (au[3] - au[1]) * (au[4] - au[2])
        area_b == (bu[3] - bu[1]) * (bu[4] - bu[2])
    IN  area_a + area_b - area_intersection

\* intersection without the test of line 50
intersection_unclipped(ai, bi) ==
    LET x == Max(ai[1], bi[1])
        y == Max(ai[2], bi[2])
        w == Min(ai[3], bi[3]) - x
        h == Min(ai[4], bi[4]) - y
    IN  w * h

\* lines 46-52
intersection(ai, bi) ==
    LET x == Max(ai[1], bi[1])
        y == Max(ai[2], bi[2])
        w == Min(ai[3], bi[3]) - x
        h == Min(ai[4], bi[4]) - y
    IN  IF w < 0 \/ h < 0 THEN 0 ELSE w * h

\* lines 56-63
iou(a, b) ==
    IF a[1] >= a[3] \/ a[2] >= a[4] \/ b[1] >= b[3] \/ b[2] >= b[4]
    THEN Zero
    ELSE LET area_i == intersection(a, b)
             area_u == union(a, b, area_i)
         IN  [n |-> area_i, d |-> area_u, e |-> 1]

----------------------------------------------------------------------------
(* Inputs of get_image_rpns *)

\* largest number of ground-truth boxes in image_info
MaxBoxes == 2

\* the original image is OrigZoom times the resized one in both directions
OrigZoom == 2

\* the ground-truth boxes <<x, y, w, h>> an image may hold, in resized pixels:
\* boxes lying exactly on an anchor, boxes between anchors, and one of width 0
GtBoxes ==
    {<<0, 0, 2, 2>>, <<0, 0, 3, 3>>, <<0, 0, 4, 4>>, <<1, 1, 3, 3>>,
     <<1, 1, 4, 4>>, <<2, 1, 4, 4>>, <<1, 1, 0, 2>>}

\* the Settings the labelling runs with: an 8 x 6 resized image (width first),
\* stride 2, anchor shapes 2x2, 4x2, 4x4 and 8x4
SmallSettings ==
    [img_size |-> <<8, 6>>, rpn_stride |-> 2,
     anchor_box_scales |-> <<2, 4>>,
     anchor_box_ratios |-> <<<<1, 1>>, <<2, 1>>>>,
     num_anchors |-> 4,
     iou_lower |-> [n |-> 3, d |-> 10, e |-> 0],
     iou_upper |-> [n |-> 7, d |-> 10, e |-> 0]]

\* the function handed in as img_dimension_calc_fn: one cell per stride
img_dimension_calc_fn(c, resized_img_width, resized_img_height) ==
    <<resized_img_width \div c.rpn_stride, resized_img_height \div c.rpn_stride>>

\* a bbox_info row <<label, x, y, h, w>> of the original image whose box is
\* (x, y, w, h) once resized
BboxInfo(zoom, corner, size) ==
    <<"U+0000", zoom * corner[1], zoom * corner[2], zoom * size[2], zoom * size[1]>>

RECURSIVE SeqsUpTo(_, _)
SeqsUpTo(S, k) ==
    IF k = 0 THEN {<<>>}
    ELSE LET shorter == SeqsUpTo(S, k - 1)
         IN  shorter \cup {Append(q, x) : q \in shorter, x \in S}

Cells(c, f) == (0 .. f[2] - 1) \X (0 .. f[1] - 1) \X (0 .. c.num_anchors - 1)

\* the regression slice of np.zeros: (0, 0, log 1, log 1)
ZeroSlice ==
    [tx |-> <<0, 1>>, ty |-> <<0, 1>>, tw |-> <<1, 1>>, th |-> <<1, 1>>,
     single |-> FALSE]

\* lines 219-225: the boxes in resized pixels, <<x_min, y_min, y_max, x_max>>
GtBoxCoordinates(c, o, info) ==
    [k \in 1 .. Len(info) |->
        LET x_min == (info[k][2] * c.img_size[1]) \div o[1]
            y_min == (info[k][3] * c.img_size[2]) \div o[2]
        IN  <<x_min, y_min,
              (info[k][4] * c.img_size[2]) \div o[2] + y_min,
              (info[k][5] * c.img_size[1]) \div o[1] + x_min>>]

\* lines 206-232: the state in which the scan starts
Entry(c, o, info) ==
    /\ C = c
    /\ fmap = img_dimension_calc_fn(c, c.img_size[1], c.img_size[2])
    /\ orig = o
    /\ image_info = info
    /\ gt_box_coordinates = GtBoxCoordinates(c, o, info)
    /\ y_is_valid = {}
    /\ y_is_obj = {}
    /\ y_rpn_reg = [cell \in {} |-> ZeroSlice]
    /\ best_anchor_for_bbox = [k \in 1 .. Len(info) |-> <<-1, -1, -1, -1>>]
    /\ best_iou_for_bbox = [k \in 1 .. Len(info) |-> [v |-> Zero, below |-> FALSE]]
    /\ best_coordinates_for_bbox = [k \in 1 .. Len(info) |-> <<0, 0, 0, 0>>]
    /\ best_targets_for_bbox = [k \in 1 .. Len(info) |-> ZeroSlice]
    /\ n_anchors_per_bbox = [k \in 1 .. Len(info) |-> 0]
    /\ best_reg_target = <<>>
    /\ pc = "scan"
    /\ anchor_area_index = 0
    /\ anchor_ratio_index = 0
    /\ ix = 0
    /\ jy = 0
    /\ bbox_type_at = [cell \in {} |-> "NEG"]
    /\ force_assigned = {}
    /\ orphan_report = {}
    /\ iou_args = <<>>
    /\ iou_result = <<>>

Init ==
    \E info \in SeqsUpTo({BboxInfo(OrigZoom, <<b[1], b[2]>>, <<b[3], b[4]>>) : b \in GtBoxes},
                         MaxBoxes) :
        Entry(SmallSettings,
              <<OrigZoom * SmallSettings.img_size[1], OrigZoom * SmallSettings.img_size[2]>>,
              info)

----------------------------------------------------------------------------
(* The grid scan, lines 235-325 *)

NumBoxes == Len(gt_box_coordinates)

\* lines 238-239
AnchorWidth(ai, ri) == C.anchor_box_scales[ai + 1] * C.anchor_box_ratios[ri + 1][1]

AnchorHeight(ai, ri) == C.anchor_box_scales[ai + 1] * C.anchor_box_ratios[ri + 1][2]

\* lines 244-245 and 251-252: rpn_stride * (i + 0.5) -/+ side / 2
AnchorMin(i, side) == (C.rpn_stride * (2 * i + 1) - side) \div 2

AnchorMax(i, side) == (C.rpn_stride * (2 * i + 1) + side) \div 2

\* <<x_min, y_min, x_max, y_max>> of the anchor of shape (ai, ri) at column i, row j
AnchorBox(ai, ri, i, j) ==
    <<AnchorMin(i, AnchorWidth(ai, ri)), AnchorMin(j, AnchorHeight(ai, ri)),
      AnchorMax(i, AnchorWidth(ai, ri)), AnchorMax(j, AnchorHeight(ai, ri))>>

\* line 248 left out
XInBoundsAlways(ai, ri, i) == TRUE

\* line 248, negated
XInBounds(ai, ri, i) ==
    ~(AnchorMin(i, AnchorWidth(ai, ri)) < 0
        \/ AnchorMax(i, AnchorWidth(ai, ri)) > C.img_size[1])

\* line 254, negated
YInBounds(ai, ri, j) ==
    ~(AnchorMin(j, AnchorHeight(ai, ri)) < 0
        \/ AnchorMax(j, AnchorHeight(ai, ri)) > C.img_size[2])

\* line 314 and line 336
CompositeAnchorIndex(ai, ri) == ri + ai * Len(C.anchor_box_ratios)

\* the box handed to iou for ground-truth box k, lines 260-261
GtBox(k) ==
    <<gt_box_coordinates[k][1], gt_box_coordinates[k][2],
      gt_box_coordinates[k][4], gt_box_coordinates[k][3]>>

\* lines 276-284: (tx, ty, tw, th); tw and th hold the argument of np.log
RegTarget(g, box) ==
    [tx |-> Frac(g[4] + g[1] - (box[3] + box[1]), 2 * (box[3] - box[1])),
     ty |-> Frac(g[2] + g[3] - (box[4] + box[2]), 2 * (box[4] - box[2])),
     tw |-> Frac(g[4] - g[1], box[3] - box[1]),
     th |-> Frac(g[3] - g[2], box[4] - box[2]),
     single |-> FALSE]

IsPowerOfTwo(q) == \E k \in 0 .. 24 : q = 2 ^ k

\* a target all of whose components a 24-bit mantissa holds exactly
ExactInSingle(t) ==
    /\ IsPowerOfTwo(t.tx[2])
    /\ IsPowerOfTwo(t.ty[2])
    /\ t.tw \in {<<1, 1>>, <<0, 1>>}
    /\ t.th \in {<<1, 1>>, <<0, 1>>}

\* line 295 into the float32 array of line 231
SingleTarget(t) == [t EXCEPT !.single = ~ExactInSingle(t)]

\* curr_iou > best_iou_for_bbox[bbox_index], lines 263 and 291: a double against
\* the single-precision value stored by line 293
ExceedsStored(curr_iou, stored) ==
    IF FloatNear(curr_iou, stored.v)
    THEN stored.v.n # 0 /\ stored.below
    ELSE FloatLess(stored.v, curr_iou)

\* line 293 into the float32 array of line 229; equal doubles round alike
StoreSingle(curr_iou, stored, below) ==
    [v |-> curr_iou, below |-> IF curr_iou = stored.v THEN stored.below ELSE below]

\* array[cell] = bit for a 0/1 array kept as the set of its cells holding 1
SetBit(array, cell, bit) == IF bit = 1 THEN array \cup {cell} ELSE array \ {cell}

\* array[cell, 4*k : 4*k+4] = slice
SetSlice(array, cell, slice) ==
    IF slice = ZeroSlice
    THEN [c \in DOMAIN array \ {cell} |-> array[c]]
    ELSE [c \in DOMAIN array \cup {cell} |-> IF c = cell THEN slice ELSE array[c]]

\* the history of the labels the scan wrote: "NEG" is left out
SetType(types, cell, type) ==
    IF type = "NEG"
    THEN [c \in DOMAIN types \ {cell} |-> types[c]]
    ELSE [c \in DOMAIN types \cup {cell} |-> IF c = cell THEN type ELSE types[c]]

\* lines 315-325, with the history of what was written
WriteLabel(s, cell) ==
    IF s.bbox_type = "POS"
    THEN [s EXCEPT !.y_is_valid = SetBit(@, cell, 1), !.y_is_obj = SetBit(@, cell, 1),
                   !.y_rpn_reg = SetSlice(@, cell, s.best_reg_target),
                   !.bbox_type_at = SetType(@, cell, "POS")]
    ELSE IF s.bbox_type = "NEG"
    THEN [s EXCEPT !.y_is_valid = SetBit(@, cell, 1), !.y_is_obj = SetBit(@, cell, 0),
                   !.bbox_type_at = SetType(@, cell, "NEG")]
    ELSE [s EXCEPT !.y_is_valid = SetBit(@, cell, 0), !.y_is_obj = SetBit(@, cell, 0),
                   !.bbox_type_at = SetType(@, cell, "NONE")]

\* lines 291-295
UpdateBest(s, k, anc, curr_iou, below) ==
    IF ExceedsStored(curr_iou, s.best_iou_for_bbox[k])
    THEN [s EXCEPT !.best_anchor_for_bbox[k] = <<anc.jy, anc.ix, anc.ai, anc.ri>>,
                   !.best_iou_for_bbox[k] = StoreSingle(curr_iou, @, below),
                   !.best_coordinates_for_bbox[k] =
                       <<anc.box[1], anc.box[3], anc.box[2], anc.box[4]>>,
                   !.best_targets_for_bbox[k] =
                       SingleTarget(RegTarget(gt_box_coordinates[k], anc.box))]
    ELSE s

\* lines 300-305 with >= for > in line 303
MarkPositiveOrTies(s, k, anc, curr_iou) ==
    IF FloatLess(C.iou_upper, curr_iou)
    THEN LET t == [s EXCEPT !.bbox_type = "POS", !.n_anchors_per_bbox[k] = @ + 1]
         IN  IF ~FloatLess(curr_iou, t.best_iou_for_loc)
             THEN [t EXCEPT !.best_iou_for_loc = curr_iou,
                            !.best_reg_target = RegTarget(gt_box_coordinates[k], anc.box)]
             ELSE t
    ELSE s

\* lines 300-305
MarkPositive(s, k, anc, curr_iou) ==
    IF FloatLess(C.iou_upper, curr_iou)
    THEN LET t == [s EXCEPT !.bbox_type = "POS", !.n_anchors_per_bbox[k] = @ + 1]
         IN  IF FloatLess(t.best_iou_for_loc, curr_iou)
             THEN [t EXCEPT !.best_iou_for_loc = curr_iou,
                            !.best_reg_target = RegTarget(gt_box_coordinates[k], anc.box)]
             ELSE t
    ELSE s

\* lines 307-309
MarkNeutral(s, curr_iou) ==
    IF FloatLess(C.iou_lower, curr_iou) /\ FloatLess(curr_iou, C.iou_upper)
          /\ s.bbox_type # "POS"
    THEN [s EXCEPT !.bbox_type = "NONE"]
    ELSE s

\* one pass of the loop of line 259: lines 260-325 for ground-truth box k
BboxStep(s, k, anc, below) ==
    LET curr_iou == iou(GtBox(k), anc.box)
    IN  WriteLabel(
            IF FloatLess(C.iou_upper, curr_iou)
                  \/ ExceedsStored(curr_iou, s.best_iou_for_bbox[k])
            THEN MarkNeutral(
                     MarkPositive(UpdateBest(s, k, anc, curr_iou, below),
                                  k, anc, curr_iou),
                     curr_iou)
            ELSE s,
            <<anc.jy, anc.ix, CompositeAnchorIndex(anc.ai, anc.ri)>>)

RECURSIVE BboxLoop(_, _, _, _)
BboxLoop(s, k, anc, below) ==
    IF k > NumBoxes THEN s
    ELSE BboxLoop(BboxStep(s, k, anc, below[k]), k + 1, anc, below)

\* the locals and arrays the body of the scan reads and writes
ScanState ==
    [bbox_type |-> "NEG", best_iou_for_loc |-> Zero,
     best_reg_target |-> best_reg_target,
     best_anchor_for_bbox |-> best_anchor_for_bbox,
     best_iou_for_bbox |-> best_iou_for_bbox,
     best_coordinates_for_bbox |-> best_coordinates_for_bbox,
     best_targets_for_bbox |-> best_targets_for_bbox,
     n_anchors_per_bbox |-> n_anchors_per_bbox,
     y_is_valid |-> y_is_valid, y_is_obj |-> y_is_obj, y_rpn_reg |-> y_rpn_reg,
     bbox_type_at |-> bbox_type_at]

\* where the loops of lines 235, 236, 242 and 250 stand after column i is left
AfterColumn(ai, ri, i) ==
    IF i + 1 < fmap[1]
    THEN [pc |-> "scan", ai |-> ai, ri |-> ri, ix |-> i + 1, jy |-> 0]
    ELSE IF ri + 1 < Len(C.anchor_box_ratios)
    THEN [pc |-> "scan", ai |-> ai, ri |-> ri + 1, ix |-> 0, jy |-> 0]
    ELSE [pc |-> "repair", ai |-> ai, ri |-> 0, ix |-> 0, jy |-> 0]

\* ... and after row j of column i is left
AfterRow(ai, ri, i, j) ==
    IF j + 1 < fmap[2]
    THEN [pc |-> "scan", ai |-> ai, ri |-> ri, ix |-> i, jy |-> j + 1]
    ELSE AfterColumn(ai, ri, i)

Goto(p) ==
    /\ pc' = p.pc
    /\ anchor_area_index' = p.ai
    /\ anchor_ratio_index' = p.ri
    /\ ix' = p.ix
    /\ jy' = p.jy

Inputs == <<C, fmap, orig, image_info, gt_box_coordinates, orphan_report,
            iou_args, iou_result>>

Outputs == <<y_is_valid, y_is_obj, y_rpn_reg, bbox_type_at, force_assigned>>

Bookkeeping == <<best_anchor_for_bbox, best_iou_for_bbox, best_coordinates_for_bbox,
                 best_targets_for_bbox, n_anchors_per_bbox, best_reg_target>>

\* line 248: the whole column is out of bounds
SkipColumn ==
    /\ pc = "scan"
    /\ ~XInBounds(anchor_area_index, anchor_ratio_index, ix)
    /\ Goto(AfterColumn(anchor_area_index, anchor_ratio_index, ix))
    /\ UNCHANGED <<Inputs, Outputs, Bookkeeping>>

\* line 254: the anchor is out of bounds
SkipAnchor ==
    /\ pc = "scan"
    /\ XInBounds(anchor_area_index, anchor_ratio_index, ix)
    /\ ~YInBounds(anchor_area_index, anchor_ratio_index, jy)
    /\ Goto(AfterRow(anchor_area_index, anchor_ratio_index, ix, jy))
    /\ UNCHANGED <<Inputs, Outputs, Bookkeeping>>

\* lines 256-325 for one in-bounds anchor
LabelAnchor ==
    /\ pc = "scan"
    /\ XInBounds(anchor_area_index, anchor_ratio_index, ix)
    /\ YInBounds(anchor_area_index, anchor_ratio_index, jy)
    /\ \E below \in [1 .. NumBoxes -> BOOLEAN] :
          LET anc == [jy |-> jy, ix |-> ix, ai |-> anchor_area_index,
                      ri |-> anchor_ratio_index,
                      box |-> AnchorBox(anchor_area_index, anchor_ratio_index, ix, jy)]
              s == BboxLoop(ScanState, 1, anc, below)
          IN  /\ y_is_valid' = s.y_is_valid
              /\ y_is_obj' = s.y_is_obj
              /\ y_rpn_reg' = s.y_rpn_reg
              /\ bbox_type_at' = s.bbox_type_at
              /\ force_assigned' = force_assigned
              /\ best_anchor_for_bbox' = s.best_anchor_for_bbox
              /\ best_iou_for_bbox' = s.best_iou_for_bbox
              /\ best_coordinates_for_bbox' = s.best_coordinates_for_bbox
              /\ best_targets_for_bbox' = s.best_targets_for_bbox
              /\ n_anchors_per_bbox' = s.n_anchors_per_bbox
              /\ best_reg_target' = s.best_reg_target
    /\ Goto(AfterRow(anchor_area_index, anchor_ratio_index, ix, jy))
    /\ UNCHANGED Inputs

----------------------------------------------------------------------------
(* The repair pass, lines 333-341: it runs at the end of every pass of the *)
(* loop over anchor_box_scales (line 235), whose body it belongs to        *)

\* lines 334-341 without line 340
RepairStepValidOnly(s, k) ==
    IF n_anchors_per_bbox[k] = 0 /\ best_anchor_for_bbox[k][1] # -1
    THEN LET cell == <<best_anchor_for_bbox[k][1], best_anchor_for_bbox[k][2],
                       best_anchor_for_bbox[k][4]
                           + best_anchor_for_bbox[k][3] * Len(C.anchor_box_ratios)>>
         IN  [s EXCEPT !.y_is_valid = SetBit(@, cell, 1),
                       !.y_rpn_reg = SetSlice(@, cell, best_targets_for_bbox[k]),
                       !.force_assigned = @ \cup {cell}]
    ELSE s

\* lines 334-341 for ground-truth box k
RepairStep(s, k) ==
    IF n_anchors_per_bbox[k] = 0 /\ best_anchor_for_bbox[k][1] # -1
    THEN LET cell == <<best_anchor_for_bbox[k][1], best_anchor_for_bbox[k][2],
                       best_anchor_for_bbox[k][4]
                           + best_anchor_for_bbox[k][3] * Len(C.anchor_box_ratios)>>
         IN  [s EXCEPT !.y_is_valid = SetBit(@, cell, 1),
                       !.y_is_obj = SetBit(@, cell, 1),
                       !.y_rpn_reg = SetSlice(@, cell, best_targets_for_bbox[k]),
                       !.force_assigned = @ \cup {cell}]
    ELSE s

RECURSIVE RepairLoop(_, _)
RepairLoop(s, k) ==
    IF k > NumBoxes THEN s ELSE RepairLoop(RepairStep(s, k), k + 1)

Repair ==
    /\ pc = "repair"
    /\ LET s == RepairLoop([y_is_valid |-> y_is_valid, y_is_obj |-> y_is_obj,
                            y_rpn_reg |-> y_rpn_reg,
                            force_assigned |-> force_assigned], 1)
       IN  /\ y_is_valid' = s.y_is_valid
           /\ y_is_obj' = s.y_is_obj
           /\ y_rpn_reg' = s.y_rpn_reg
           /\ force_assigned' = s.force_assigned
    /\ IF anchor_area_index + 1 < Len(C.anchor_box_scales)
       THEN Goto([pc |-> "scan", ai |-> anchor_area_index + 1, ri |-> 0,
                  ix |-> 0, jy |-> 0])
       ELSE Goto([pc |-> "done", ai |-> anchor_area_index, ri |-> 0,
                  ix |-> 0, jy |-> 0])
    /\ UNCHANGED <<Inputs, Bookkeeping, bbox_type_at>>

Next == SkipColumn \/ SkipAnchor \/ LabelAnchor \/ Repair

Spec == Init /\ [][Next]_vars

----------------------------------------------------------------------------
(* The end-to-end scenario: a 600 x 800 (height x width) resized image,     *)
(* stride 16, the single anchor shape 128 x 128, thresholds 0.3 and 0.7,    *)
(* and one ground-truth box lying exactly on the anchor of a cell <<jy, ix>> *)

ScenarioSettings ==
    [img_size |-> <<800, 600>>, rpn_stride |-> 16,
     anchor_box_scales |-> <<128>>,
     anchor_box_ratios |-> <<<<1, 1>>>>,
     num_anchors |-> 1,
     iou_lower |-> [n |-> 3, d |-> 10, e |-> 0],
     iou_upper |-> [n |-> 7, d |-> 10, e |-> 0]]

\* cells <<jy, ix>> the box is laid on: the first and the last in-bounds cell
\* and one in the middle
ScenarioTargets == {<<4, 4>>, <<20, 25>>, <<33, 45>>}

InitScenario ==
    \E t \in ScenarioTargets :
        Entry(ScenarioSettings,
              <<OrigZoom * ScenarioSettings.img_size[1],
                OrigZoom * ScenarioSettings.img_size[2]>>,
              <<BboxInfo(OrigZoom,
                         <<(ScenarioSettings.rpn_stride * (2 * t[2] + 1)
                               - ScenarioSettings.anchor_box_scales[1]) \div 2,
                           (ScenarioSettings.rpn_stride * (2 * t[1] + 1)
                               - ScenarioSettings.anchor_box_scales[1]) \div 2>>,
                         <<ScenarioSettings.anchor_box_scales[1],
                           ScenarioSettings.anchor_box_scales[1]>>)>>)

SpecScenario == InitScenario /\ [][Next]_vars

----------------------------------------------------------------------------
(* Thresholds that anchors meet exactly: SmallSettings with iou_lower and   *)
(* iou_upper set to the values iou returns for the box (1, 1, 3, 3) against *)
(* the 2 x 2 anchor of cell (0, 1) and the 4 x 2 anchor of cell (1, 1)      *)

BoundarySettings ==
    [SmallSettings EXCEPT !.iou_lower = [n |-> 2, d |-> 11, e |-> 1],
                          !.iou_upper = [n |-> 6, d |-> 11, e |-> 1]]

InitBoundary ==
    \E b \in GtBoxes :
        Entry(BoundarySettings,
              <<OrigZoom * BoundarySettings.img_size[1],
                OrigZoom * BoundarySettings.img_size[2]>>,
              <<BboxInfo(OrigZoom, <<b[1], b[2]>>, <<b[3], b[4]>>)>>)

SpecBoundary == InitBoundary /\ [][Next]_vars

----------------------------------------------------------------------------
(* Boxes that meet at one anchor: the 4 x 4 anchor of cell (1, 1) has IoU 1 *)
(* with (1, 1, 4, 4), IoU 12/16 with (1, 1, 4, 3) and with (1, 1, 3, 4),    *)
(* and is the best match, at IoU 9/16, of (1, 1, 3, 3)                      *)

TargetBoxes ==
    {<<1, 1, 4, 4>>, <<1, 1, 4, 3>>, <<1, 1, 3, 4>>, <<1, 1, 3, 3>>, <<0, 0, 2, 2>>}

InitTargets ==
    \E info \in SeqsUpTo({BboxInfo(OrigZoom, <<b[1], b[2]>>, <<b[3], b[4]>>) :
                              b \in TargetBoxes}, MaxBoxes) :
        Entry(SmallSettings,
              <<OrigZoom * SmallSettings.img_size[1], OrigZoom * SmallSettings.img_size[2]>>,
              info)

SpecTargets == InitTargets /\ [][Next]_vars

----------------------------------------------------------------------------
(* iou on its own: the arguments are drawn, one step calls it both ways *)

\* largest x coordinate of an argument of iou; y runs over 0 .. 2
MaxIouCoord == 3

IouBoxes ==
    {<<x1, y1, x2, y2>> : x1 \in 0 .. MaxIouCoord, y1 \in 0 .. 2,
                          x2 \in 0 .. MaxIouCoord, y2 \in 0 .. 2}

InitIou ==
    /\ iou_args \in IouBoxes \X IouBoxes
    /\ iou_result = <<>>
    /\ pc = "iou"
    /\ C = SmallSettings
    /\ fmap = <<0, 0>>
    /\ orig = <<0, 0>>
    /\ image_info = <<>>
    /\ gt_box_coordinates = <<>>
    /\ y_is_valid = {}
    /\ y_is_obj = {}
    /\ y_rpn_reg = <<>>
    /\ best_anchor_for_bbox = <<>>
    /\ best_iou_for_bbox = <<>>
    /\ best_coordinates_for_bbox = <<>>
    /\ best_targets_for_bbox = <<>>
    /\ n_anchors_per_bbox = <<>>
    /\ best_reg_target = <<>>
    /\ anchor_area_index = 0
    /\ anchor_ratio_index = 0
    /\ ix = 0
    /\ jy = 0
    /\ bbox_type_at = <<>>
    /\ force_assigned = {}
    /\ orphan_report = {}

CallIou ==
    /\ pc = "iou"
    /\ iou_result' = <<iou(iou_args[1], iou_args[2]), iou(iou_args[2], iou_args[1])>>
    /\ pc' = "iou_done"
    /\ UNCHANGED <<C, fmap, orig, image_info, gt_box_coordinates, orphan_report,
                   iou_args, Outputs, Bookkeeping, anchor_area_index,
                   anchor_ratio_index, ix, jy>>

NextIou == CallIou

SpecIou == InitIou /\ [][NextIou]_vars

----------------------------------------------------------------------------
(* Vocabulary of the properties *)

AllCells == Cells(C, fmap)

Valid(cell) == IF cell \in y_is_valid THEN 1 ELSE 0

Objectness(cell) == IF cell \in y_is_obj THEN 1 ELSE 0

Regression(cell) == IF cell \in DOMAIN y_rpn_reg THEN y_rpn_reg[cell] ELSE ZeroSlice

AtDone == pc = "done"

\* the pixel box of the anchor a cell <<jy, ix, composite index>> stands for
CellBox(cell) ==
    AnchorBox(cell[3] \div Len(C.anchor_box_ratios),
              cell[3] % Len(C.anchor_box_ratios), cell[2], cell[1])

InImage(cell) ==
    /\ CellBox(cell)[1] >= 0
    /\ CellBox(cell)[2] >= 0
    /\ CellBox(cell)[3] <= C.img_size[1]
    /\ CellBox(cell)[4] <= C.img_size[2]

CellIou(k, cell) == iou(GtBox(k), CellBox(cell))

HasBest(k) == best_anchor_for_bbox[k] # <<-1, -1, -1, -1>>

BestCell(k) ==
    <<best_anchor_for_bbox[k][1], best_anchor_for_bbox[k][2],
      best_anchor_for_bbox[k][4] + best_anchor_for_bbox[k][3] * Len(C.anchor_box_ratios)>>

NonDegenerate(k) == GtBox(k)[1] < GtBox(k)[3] /\ GtBox(k)[2] < GtBox(k)[4]

\* box k has IoU > 0 with at least one in-bounds anchor
Overlapped(k) ==
    \E cell \in AllCells : InImage(cell) /\ FloatLess(Zero, CellIou(k, cell))

AboveUpper(k, cell) == InImage(cell) /\ FloatLess(C.iou_upper, CellIou(k, cell))

Positive(cell) == Valid(cell) = 1 /\ Objectness(cell) = 1

Represented == {k \in 1 .. NumBoxes : NonDegenerate(k) /\ Overlapped(k)}

\* the place of an anchor in the order the loops of lines 235, 236, 242 and 250
\* visit them: scale, ratio, column ix, row jy
ScanRank(ai, ri, i, j) ==
    ((ai * Len(C.anchor_box_ratios) + ri) * fmap[1] + i) * fmap[2] + j

CellScanRank(cell) ==
    ScanRank(cell[3] \div Len(C.anchor_box_ratios),
             cell[3] % Len(C.anchor_box_ratios), cell[2], cell[1])

\* lines 315-325 have run for the cell: its anchor is in bounds, the loop of
\* line 259 has a box to run for, and the scan has passed the cell
Scanned(cell) ==
    /\ InImage(cell)
    /\ NumBoxes > 0
    /\ \/ pc = "done"
       \/ pc = "repair" /\ cell[3] \div Len(C.anchor_box_ratios) <= anchor_area_index
       \/ pc = "scan" /\ CellScanRank(cell)
                            < ScanRank(anchor_area_index, anchor_ratio_index, ix, jy)

\* the bbox_type lines 315-325 last wrote the cell from
ScanLabel(cell) == IF cell \in DOMAIN bbox_type_at THEN bbox_type_at[cell] ELSE "NEG"

\* the ground-truth box whose target lines 303-305 leave in best_reg_target
\* for the cell: the one of largest IoU, the first in the list among equals
FirstBestBox(cell) ==
    CHOOSE k \in 1 .. NumBoxes :
        \A j \in 1 .. NumBoxes :
            /\ ~FloatLess(CellIou(k, cell), CellIou(j, cell))
            /\ j < k => FloatLess(CellIou(j, cell), CellIou(k, cell))

\* two regression targets agree up to single precision
SameTarget(t1, t2) == [t1 EXCEPT !.single = FALSE] = [t2 EXCEPT !.single = FALSE]

----------------------------------------------------------------------------
\* C1: once get_image_rpns has completed, every non-degenerate ground-truth box
\* that has IoU > 0 with some in-bounds anchor has a cell with valid = 1 and
\* objectness = 1 that is an anchor above the upper threshold for it or its
\* recorded best match; and unless two such boxes share a best anchor, there
\* are at least as many cells with objectness = 1 as there are such boxes.
EveryBoxRepresented ==
    AtDone =>
        /\ \A k \in Represented :
              \E cell \in AllCells :
                  /\ Positive(cell)
                  /\ AboveUpper(k, cell) \/ (HasBest(k) /\ cell = BestCell(k))
        /\ (\A k1, k2 \in Represented :
                k1 # k2 => HasBest(k1) /\ HasBest(k2) /\ BestCell(k1) # BestCell(k2))
             => Cardinality({cell \in AllCells : Objectness(cell) = 1})
                    >= Cardinality(Represented)

\* two boxes with different best anchors, one of them repaired, the other
\* holding an anchor above the threshold
EveryBoxRepresentedWitness ==
    /\ AtDone
    /\ Cardinality(Represented) = 2
    /\ BestCell(1) # BestCell(2)
    /\ \E k \in 1 .. 2 : n_anchors_per_bbox[k] = 0 /\ BestCell(k) \in force_assigned
    /\ \E k \in 1 .. 2 : n_anchors_per_bbox[k] > 0

\* C5: at every point of the scan and of the repair pass, a cell whose anchor
\* leaves the resized image on any side has valid = 0, objectness = 0 and an
\* all-zero regression slice, and no ground-truth box has such an anchor as its
\* recorded best match, so the repair pass never writes it.
OutOfBoundsUntouched ==
    /\ \A cell \in AllCells :
          ~InImage(cell) =>
              /\ Valid(cell) = 0
              /\ Objectness(cell) = 0
              /\ Regression(cell) = ZeroSlice
              /\ cell \notin force_assigned
    /\ \A k \in 1 .. NumBoxes : HasBest(k) => InImage(BestCell(k))

\* a box overlaps an out-of-bounds anchor more than any in-bounds one, and the
\* repair pass has run for it
OutOfBoundsUntouchedWitness ==
    /\ AtDone
    /\ \E k \in 1 .. NumBoxes :
          /\ n_anchors_per_bbox[k] = 0
          /\ HasBest(k)
          /\ BestCell(k) \in force_assigned
          /\ \E out \in AllCells :
                /\ ~InImage(out)
                /\ \A cell \in AllCells :
                      InImage(cell) => FloatLess(CellIou(k, cell), CellIou(k, out))

\* C6: iou(a, b) equals iou(b, a) and lies in [0, 1] for all boxes a and b, the
\* intersection area never exceeding the union area, and iou is exactly 0 when
\* either box has x_min >= x_max or y_min >= y_max.
IouSymmetricInRange ==
    pc = "iou_done" =>
        /\ FloatEq(iou_result[1], iou_result[2])
        /\ ~FloatLess(iou_result[1], Zero)
        /\ ~FloatLess(One, iou_result[1])
        /\ iou_result[1].n <= iou_result[1].d
        /\ (\E i \in 1 .. 2 :
                \/ iou_args[i][1] >= iou_args[i][3]
                \/ iou_args[i][2] >= iou_args[i][4])
              => iou_result[1] = Zero /\ iou_result[2] = Zero

\* iou has been called both ways on two different boxes that overlap in part
IouSymmetricInRangeWitness ==
    /\ pc = "iou_done"
    /\ iou_result[1].n > 0
    /\ iou_result[1].n < iou_result[1].d
    /\ iou_args[1] # iou_args[2]

\* the cells whose anchor is exactly ground-truth box 1
OnBox == {cell \in AllCells : InImage(cell) /\ CellBox(cell) = GtBox(1)}

Adjacent(c1, c2) ==
    /\ c1[3] = c2[3]
    /\ Abs(c1[1] - c2[1]) + Abs(c1[2] - c2[2]) = 1

\* C3 as stated: in the end-to-end scenario the cell (jy, ix) the box lies on
\* ends with valid = 1, objectness = 1 and regression (0, 0, 0, 0), and every
\* other cell, the adjacent ones included, ends with objectness = 0.
ScenarioOnlyTheCell ==
    (AtDone /\ C = ScenarioSettings /\ NumBoxes = 1) =>
        /\ OnBox # {}
        /\ \A t \in OnBox :
              /\ Valid(t) = 1
              /\ Objectness(t) = 1
              /\ Regression(t) = ZeroSlice
              /\ \A cell \in AllCells \ {t} : Objectness(cell) = 0

\* C3 as amended: ... and the other cells with objectness = 1 are exactly the
\* in-bounds cells adjacent to (jy, ix) in its row or column, whose anchors,
\* one stride away, have IoU 14336/18432 > 0.7 with the box.
ScenarioCellAndNeighbours ==
    (AtDone /\ C = ScenarioSettings /\ NumBoxes = 1) =>
        /\ OnBox # {}
        /\ \A t \in OnBox :
              /\ Valid(t) = 1
              /\ Objectness(t) = 1
              /\ Regression(t) = ZeroSlice
              /\ \A cell \in AllCells \ {t} :
                    Objectness(cell) = 1 <=> (InImage(cell) /\ Adjacent(cell, t))

\* the scenario has run to its end with the box on a cell that has in-bounds
\* neighbours
ScenarioCellAndNeighboursWitness ==
    /\ AtDone
    /\ C = ScenarioSettings
    /\ NumBoxes = 1
    /\ \E t \in OnBox :
          /\ Positive(t)
          /\ Cardinality({cell \in AllCells : InImage(cell) /\ Adjacent(cell, t)}) = 4

\* C2: for a single ground-truth box that no in-bounds anchor of any shape
\* exceeds the upper threshold with but some in-bounds anchor overlaps, once
\* labelling has completed exactly one cell of the whole output has
\* objectness = 1: the box's best match, with valid = 1 and, up to single
\* precision, the regression target computed against it.  The run ends here
\* with the cell the repair pass wrote after the first scale and the cell it
\* wrote after the second.
OrphanRepairedOnce ==
    (AtDone /\ NumBoxes = 1 /\ Overlapped(1)
        /\ \A cell \in AllCells : ~AboveUpper(1, cell)) =>
        /\ HasBest(1)
        /\ {cell \in AllCells : Objectness(cell) = 1} = {BestCell(1)}
        /\ Valid(BestCell(1)) = 1
        /\ SameTarget(Regression(BestCell(1)),
                      RegTarget(gt_box_coordinates[1], CellBox(BestCell(1))))

\* C4: against a single ground-truth box, an in-bounds anchor whose IoU equals
\* the lower threshold is labelled NONE by the scan (valid = 0, objectness = 0),
\* and one whose IoU equals the upper threshold is labelled POS (valid = 1,
\* objectness = 1, the box's counter incremented).
ThresholdBoundary ==
    NumBoxes = 1 =>
        \A cell \in AllCells :
            Scanned(cell) =>
                /\ FloatEq(CellIou(1, cell), C.iou_lower) => ScanLabel(cell) = "NONE"
                /\ FloatEq(CellIou(1, cell), C.iou_upper) =>
                       ScanLabel(cell) = "POS" /\ n_anchors_per_bbox[1] > 0

\* C7: a ground-truth box without a recorded best match at the end of
\* labelling has no positive label written for it and is named in what
\* get_image_rpns reports.
OrphansReported ==
    AtDone =>
        \A k \in 1 .. NumBoxes :
            ~HasBest(k) => n_anchors_per_bbox[k] = 0 /\ k \in orphan_report

\* C8: an in-bounds anchor whose IoU lies strictly between the thresholds for
\* some ground-truth box and above the upper threshold for none is labelled
\* NONE by the scan, whatever the running best IoU of that box.
NeutralWhateverTheBest ==
    \A cell \in AllCells :
        (/\ Scanned(cell)
         /\ \E k \in 1 .. NumBoxes :
               /\ FloatLess(C.iou_lower, CellIou(k, cell))
               /\ FloatLess(CellIou(k, cell), C.iou_upper)
         /\ \A k \in 1 .. NumBoxes : ~AboveUpper(k, cell))
            => ScanLabel(cell) = "NONE"

\* C9: an in-bounds anchor whose IoU with every ground-truth box is at most
\* the lower threshold and which the repair pass does not write ends with
\* valid = 1 and objectness = 0, also when there is no ground-truth box at
\* all, and then no cell has objectness = 1.
NegativeByDefault ==
    AtDone =>
        /\ \A cell \in AllCells :
              (/\ InImage(cell)
               /\ cell \notin force_assigned
               /\ \A k \in 1 .. NumBoxes : ~FloatLess(C.iou_lower, CellIou(k, cell)))
                  => Valid(cell) = 1 /\ Objectness(cell) = 0
        /\ NumBoxes = 0 => y_is_obj = {}

\* C10: the best match recorded for a ground-truth box is the first, in the
\* order scale, ratio, row, column, of the in-bounds anchors that attain the
\* largest IoU with the box.
BestIsFirstOfTheBest ==
    LET RowMajorRank(cell) == (cell[3] * fmap[2] + cell[1]) * fmap[1] + cell[2]
    IN  AtDone =>
        \A k \in 1 .. NumBoxes :
            HasBest(k) =>
                \A cell \in AllCells :
                    InImage(cell) =>
                        /\ ~FloatLess(CellIou(k, BestCell(k)), CellIou(k, cell))
                        /\ FloatEq(CellIou(k, BestCell(k)), CellIou(k, cell))
                              => RowMajorRank(BestCell(k)) <= RowMajorRank(cell)

\* C11 as stated: once labelling has completed, the regression slice of every
\* cell the scan labelled POS is, up to single precision, the target computed
\* against the ground-truth box of largest IoU at that anchor (the first in
\* the list among equals): nothing that runs after the scan's write, the
\* repair pass for another box included, replaces it.
PositiveTargetKept ==
    AtDone =>
        \A cell \in AllCells :
            (Scanned(cell) /\ ScanLabel(cell) = "POS") =>
                SameTarget(Regression(cell),
                           RegTarget(gt_box_coordinates[FirstBestBox(cell)],
                                     CellBox(cell)))

\* C11 as amended: ... unless the repair pass has force-assigned the cell; the
\* slice is then, up to single precision, the target computed against that
\* anchor for a ground-truth box that overlaps the anchor without exceeding
\* the upper threshold with it.
PositiveTargetUnlessRepaired ==
    AtDone =>
        \A cell \in AllCells :
            (Scanned(cell) /\ ScanLabel(cell) = "POS") =>
                IF cell \in force_assigned
                THEN \E k \in 1 .. NumBoxes :
                        /\ ~AboveUpper(k, cell)
                        /\ FloatLess(Zero, CellIou(k, cell))
                        /\ SameTarget(Regression(cell),
                                      RegTarget(gt_box_coordinates[k], CellBox(cell)))
                ELSE Regression(cell)
                        = RegTarget(gt_box_coordinates[FirstBestBox(cell)],
                                    CellBox(cell))

\* a cell the scan labelled POS for the first box has been force-assigned for
\* the second, which has no positive anchor and that cell as its best match
PositiveTargetUnlessRepairedWitness ==
    /\ AtDone
    /\ NumBoxes = 2
    /\ \E cell \in AllCells :
          /\ Scanned(cell)
          /\ ScanLabel(cell) = "POS"
          /\ cell \in force_assigned
          /\ AboveUpper(1, cell)
          /\ n_anchors_per_bbox[2] = 0
          /\ BestCell(2) = cell
          /\ ~SameTarget(Regression(cell),
                         RegTarget(gt_box_coordinates[1], CellBox(cell)))

====
